---- MODULE Spec2Model ----
(***************************************************************************)
(* Hwang's generalized binary splitting (generalized_binary_splitting) and *)
(* its bisection subroutine (_binary_search), modelled from                *)
(* src/generalized_binary_splitting.py.                                    *)
(*                                                                         *)
(* The oracle pred is the ground-truth oracle of the repository's tests:   *)
(* pred(xs) is true iff xs holds an item of the defective set D.  Every    *)
(* oracle call is recorded in log, in call order.                          *)
(***************************************************************************)
EXTENDS Integers, Sequences, FiniteSets

\* ------------------------------------------------------------- bounds
\* Largest pool handed to generalized_binary_splitting.
MaxN == 4
\* Largest candidate block handed to _binary_search when it is called alone.
MaxM == 8
\* Largest pool of a call that is repeated.
MaxR == 5
\* The bound d ranges over -NegD .. MaxD.
MaxD == 3
NegD == 4

Bound == (0 - NegD) .. MaxD

\* ------------------------------------------------------------- helpers
Range(s) == {s[k] : k \in 1 .. Len(s)}

\* The duplicate-free ordered sequences over S of length lo..hi.
InjSeqs(S, lo, hi) ==
  UNION {{s \in [1 .. m -> S] : \A a, b \in 1 .. m : a # b => s[a] # s[b]} :
         m \in lo .. hi}

\* The pool of m items in caller order.  Both functions read an item only
\* through equality and through pred, so a run on any duplicate-free pool is a
\* renaming of a run on this one with the defective set renamed alike; the
\* defective set ranges over every subset of the pool.
Pool(m) == [k \in 1 .. m |-> k]

\* Every order in which list(set) may enumerate the set S.
ListOfSet(S) == InjSeqs(S, Cardinality(S), Cardinality(S))

\* Python slices xs[a:b] and xs[a:] with 0-based, clamped bounds.
Slice(xs, a, b) ==
  LET hi == IF b > Len(xs) THEN Len(xs) ELSE b
  IN  IF a >= hi THEN <<>> ELSE [k \in 1 .. (hi - a) |-> xs[a + k]]

SliceFrom(xs, a) == Slice(xs, a, Len(xs))

RECURSIVE Pow2(_)
Pow2(a) == IF a <= 0 THEN 1 ELSE 2 * Pow2(a - 1)

\* math.floor(math.log2(l / 2)) for an integer l >= 2 (the only values the
\* adaptive branch computes it for, see AdaptiveLOk).
RECURSIVE Alpha(_)
Alpha(l) == IF l < 4 THEN 0 ELSE 1 + Alpha(l \div 2)

VARIABLES
  items,            \* argument: the candidate pool
  d,                \* argument: the bound
  D,                \* ground truth read by pred
  unsure, defects,  \* locals of generalized_binary_splitting
  n,                \* len(unsure) at the head of the current iteration
  i,                \* position of the for loop of the individual-testing branch
  candidates, start, end, mid, nondefective,   \* locals of _binary_search
  caller,           \* who called _binary_search: "splitter" or "test"
  single_defect, confirmed_okay,   \* what _binary_search returned (0 is no item)
  pc,               \* control point
  raisedAt,         \* source line of the RuntimeError raised, 0 if none
  log,              \* the oracle calls made so far: the subset q, the answer r
                    \* and the source line at of each
  run, first        \* number of the current run and the outcome of the first

vars == <<items, d, D, unsure, defects, n, i, candidates, start, end, mid,
          nondefective, caller, single_defect, confirmed_okay, pc, raisedAt,
          log, run, first>>

inputs == <<items, d, D>>
bsLocals == <<candidates, start, end, mid, nondefective>>
bsResult == <<single_defect, confirmed_okay>>
runs == <<run, first>>

\* ------------------------------------------------------------- oracle
pred(xs) == \E k \in 1 .. Len(xs) : xs[k] \in D

\* A call of pred made at source line at.
Call(xs, at) == log' = Append(log, [q |-> xs, r |-> pred(xs), at |-> at])

\* ------------------------------------------- generalized_binary_splitting
Entry(its, dd, DD) ==
  /\ items = its /\ d = dd /\ D = DD
  /\ unsure = its /\ defects = <<>>
  /\ n = 0 /\ i = 0
  /\ candidates = <<>> /\ start = 0 /\ end = 0 /\ mid = 0
  /\ nondefective = <<>>
  /\ caller = "splitter"
  /\ single_defect = 0 /\ confirmed_okay = <<>>
  /\ pc = "loop" /\ raisedAt = 0
  /\ log = <<>>

InitUpTo(max) ==
  /\ \E m \in 0 .. max, dd \in Bound :
       \E DD \in SUBSET Range(Pool(m)) : Entry(Pool(m), dd, DD)
  /\ run = 1 /\ first = [pc |-> "none", defects |-> {}, calls |-> 0]

Init == InitUpTo(MaxN)

\* Line 43: the loop condition.
LoopCondCapped(u) == Len(u) > 0 /\ Len(defects) < d
LoopCond(u) == Len(u) > 0

\* Line 50: the switch to individual testing.
BaseCaseNoSingle(len, dd) == len <= 2 * dd - 2
BaseCaseLoose(len, dd) == len = 1 \/ len <= 2 * dd - 1
BaseCase(len, dd) == len = 1 \/ len <= 2 * dd - 2

\* Lines 60-62: 2 ** alpha.
BlockSizeNoPower(len, dd) == Alpha(len - dd + 1)
BlockSizeWhole(len, dd) == Pow2(Alpha(len - dd + 1) + 1)
BlockSize(len, dd) == Pow2(Alpha(len - dd + 1))

\* Line 62: unsure[: 2 ** alpha].
TestSet(u, size) == Slice(u, 0, size)

\* Line 70: unsure[2 ** alpha :].
RemainingSkipOne(u, size) == SliceFrom(u, size + 1)
Remaining(u, size) == SliceFrom(u, size)

\* Line 68: list(set(unsure) - {single_defect} - set(confirmed_okay)), in
\* every order the set may enumerate.
RebuiltKeepDefect(u, sd, ok) == ListOfSet(Range(u) \ Range(ok))
RebuiltDropBlock(u, sd, ok) == ListOfSet(Range(u) \ Range(candidates))
Rebuilt(u, sd, ok) == ListOfSet((Range(u) \ {sd}) \ Range(ok))

\* Line 89.
MidLinear(s, e) == s + 1
Mid(s, e) == (s + e) \div 2

\* Line 91: candidates[start:mid].
LeftHalfSkipFirst(cs, s, m) == Slice(cs, s + 1, m)
LeftHalf(cs, s, m) == Slice(cs, s, m)

\* Line 98: candidates[start].
LocatedMid(cs, s) == cs[mid + 1]
Located(cs, s) == cs[s + 1]

\* Line 72-73: the check that the round shrank the pool.
AfterRound(newUnsure, len) ==
  IF Len(newUnsure) = len THEN pc' = "raised" /\ raisedAt' = 73
  ELSE pc' = "loop" /\ raisedAt' = raisedAt

\* Line 43 with an empty pool: the loop is left and line 75 raises.
LoopExit ==
  /\ pc = "loop" /\ ~LoopCond(unsure)
  /\ pc' = "raised" /\ raisedAt' = 75
  /\ UNCHANGED <<inputs, unsure, defects, n, i, bsLocals, caller, bsResult,
                 log, runs>>

\* Lines 50-53: the pool is small, switch to individual testing.
EnterIndividual ==
  /\ pc = "loop" /\ LoopCond(unsure)
  /\ BaseCase(Len(unsure), d)
  /\ n' = Len(unsure) /\ i' = 1
  /\ pc' = "individual"
  /\ UNCHANGED <<inputs, unsure, defects, bsLocals, caller, bsResult,
                 raisedAt, log, runs>>

\* Lines 54-56: one iteration of the for loop.
IndividualTest ==
  /\ pc = "individual" /\ i <= Len(unsure)
  /\ Call(<<unsure[i]>>, 55)
  /\ defects' = IF pred(<<unsure[i]>>) THEN Append(defects, unsure[i])
                ELSE defects
  /\ i' = i + 1
  /\ UNCHANGED <<inputs, unsure, n, bsLocals, caller, bsResult, pc,
                 raisedAt, runs>>

\* Line 57.
IndividualReturn ==
  /\ pc = "individual" /\ i > Len(unsure)
  /\ pc' = "returned"
  /\ UNCHANGED <<inputs, unsure, defects, n, i, bsLocals, caller, bsResult,
                 raisedAt, log, runs>>

\* Lines 60-64 and 69-73: the block tests negative.
BlockNegative ==
  /\ pc = "loop" /\ LoopCond(unsure)
  /\ ~BaseCase(Len(unsure), d)
  /\ LET size == BlockSize(Len(unsure), d)
         test_set == TestSet(unsure, size)
     IN  /\ ~pred(test_set)
         /\ Call(test_set, 64)
         /\ n' = Len(unsure)
         /\ unsure' = Remaining(unsure, size)
         /\ AfterRound(Remaining(unsure, size), Len(unsure))
  /\ UNCHANGED <<inputs, defects, i, bsLocals, caller, bsResult, runs>>

\* Lines 60-65: the block tests positive, _binary_search is entered.
BlockPositive ==
  /\ pc = "loop" /\ LoopCond(unsure)
  /\ ~BaseCase(Len(unsure), d)
  /\ LET size == BlockSize(Len(unsure), d)
         test_set == TestSet(unsure, size)
     IN  /\ pred(test_set)
         /\ Call(test_set, 64)
         /\ n' = Len(unsure)
         /\ candidates' = test_set
         /\ start' = 0 /\ end' = Len(test_set) /\ mid' = 0
         /\ nondefective' = <<>>
         /\ caller' = "splitter"
         /\ pc' = "bsearch"
  /\ UNCHANGED <<inputs, unsure, defects, i, bsResult, raisedAt, runs>>

\* Lines 67-68 and 72-73: the located defect is recorded and the pool rebuilt
\* from a set, in whatever order the set enumerates.
Resolve ==
  /\ pc = "resolve"
  /\ defects' = Append(defects, single_defect)
  /\ \E rebuilt \in Rebuilt(unsure, single_defect, confirmed_okay) :
       /\ unsure' = rebuilt
       /\ AfterRound(rebuilt, n)
  /\ UNCHANGED <<inputs, n, i, bsLocals, caller, bsResult, log, runs>>

\* ---------------------------------------------------------- _binary_search
\* Lines 88-93: the left half tests positive.
BSearchLeft ==
  /\ pc = "bsearch" /\ start < end - 1
  /\ LET m == Mid(start, end)
         test_set == LeftHalf(candidates, start, m)
     IN  /\ pred(test_set)
         /\ Call(test_set, 92)
         /\ mid' = m
         /\ end' = m
  /\ UNCHANGED <<inputs, unsure, defects, n, i, candidates, start,
                 nondefective, caller, bsResult, pc, raisedAt, runs>>

\* Lines 88-91 and 94-96: the left half tests negative.
BSearchRight ==
  /\ pc = "bsearch" /\ start < end - 1
  /\ LET m == Mid(start, end)
         test_set == LeftHalf(candidates, start, m)
     IN  /\ ~pred(test_set)
         /\ Call(test_set, 92)
         /\ mid' = m
         /\ nondefective' = nondefective \o test_set
         /\ start' = m
  /\ UNCHANGED <<inputs, unsure, defects, n, i, candidates, end, caller,
                 bsResult, pc, raisedAt, runs>>

\* Line 98.
BSearchReturn ==
  /\ pc = "bsearch" /\ ~(start < end - 1)
  /\ single_defect' = Located(candidates, start)
  /\ confirmed_okay' = nondefective
  /\ pc' = IF caller = "splitter" THEN "resolve" ELSE "bs_returned"
  /\ UNCHANGED <<inputs, unsure, defects, n, i, bsLocals, caller, raisedAt,
                 log, runs>>

\* ------------------------------------------------------------ repeated run
\* The same call is made a second time, with the same arguments.
Rerun ==
  /\ pc \in {"returned", "raised"} /\ run = 1
  /\ run' = 2
  /\ first' = [pc |-> pc, defects |-> Range(defects), calls |-> Len(log)]
  /\ unsure' = items /\ defects' = <<>>
  /\ n' = 0 /\ i' = 0
  /\ candidates' = <<>> /\ start' = 0 /\ end' = 0 /\ mid' = 0
  /\ nondefective' = <<>>
  /\ single_defect' = 0 /\ confirmed_okay' = <<>>
  /\ pc' = "loop" /\ raisedAt' = 0
  /\ log' = <<>>
  /\ UNCHANGED <<inputs, caller>>

Next ==
  \/ LoopExit
  \/ EnterIndividual
  \/ IndividualTest
  \/ IndividualReturn
  \/ BlockNegative
  \/ BlockPositive
  \/ Resolve
  \/ BSearchLeft
  \/ BSearchRight
  \/ BSearchReturn

Spec == Init /\ [][Next]_vars

\* The call followed by a repetition of it.
NextRerun ==
  \/ Next
  \/ Rerun

InitRerun == InitUpTo(MaxR)

SpecRerun == InitRerun /\ [][NextRerun]_vars

\* Every run is scheduled until it returns or raises: the function is
\* sequential code that is never suspended.
FairSpec == Spec /\ WF_vars(Next)

\* --------------------------------------------- _binary_search called alone
\* test_binary_search calls _binary_search directly on a candidate list.
InitBS ==
  /\ \E m \in 1 .. MaxM : \E DD \in SUBSET Range(Pool(m)) :
       /\ candidates = Pool(m) /\ D = DD
       /\ end = m
  /\ start = 0 /\ mid = 0 /\ nondefective = <<>>
  /\ caller = "test"
  /\ items = <<>> /\ d = 0 /\ unsure = <<>> /\ defects = <<>>
  /\ n = 0 /\ i = 0
  /\ single_defect = 0 /\ confirmed_okay = <<>>
  /\ pc = "bsearch" /\ raisedAt = 0
  /\ log = <<>>
  /\ run = 1 /\ first = [pc |-> "none", defects |-> {}, calls |-> 0]

NextBS ==
  \/ BSearchLeft
  \/ BSearchRight
  \/ BSearchReturn

SpecBS == InitBS /\ [][NextBS]_vars

\* ------------------------------------------------------------ vocabulary
ValidCall == d >= 1 /\ Len(items) >= 1

Ended == pc \in {"returned", "raised"}

NoDuplicate(s) == Cardinality(Range(s)) = Len(s)

ExactlyD == Range(defects) = D /\ NoDuplicate(defects)

\* The block tests of the adaptive rounds (line 64) that answered answer.
BlockCalls(answer) ==
  {k \in 1 .. Len(log) : log[k].at = 64 /\ log[k].r = answer}

RECURSIVE FloorLog2(_)
FloorLog2(m) == IF m <= 1 THEN 0 ELSE 1 + FloorLog2(m \div 2)

RECURSIVE CeilLog2(_)
CeilLog2(m) == IF m <= 1 THEN 0 ELSE 1 + CeilLog2((m + 1) \div 2)

\* a = floor(log2(l / 2)).
IsAlpha(a, l) == 2 ^ (a + 1) <= l /\ l < 2 ^ (a + 2)

\* The number of items of the slice xs[:size] of a list of len items.
Clamped(size, len) == IF size > len THEN len ELSE size

\* The adaptive branch computes alpha only for l >= 2, where
\* floor(log2(l / 2)) is a natural number.
AdaptiveLOk ==
  (pc = "loop" /\ LoopCond(unsure) /\ ~BaseCase(Len(unsure), d))
    => Len(unsure) - d + 1 >= 2

\* ------------------------------------------------------------------ C1
\* C1: on a non-empty duplicate-free pool, with d >= 1 and at most d
\* defectives, the run never raises and the list it returns holds exactly the
\* defective items, each once.
C1_Correct ==
  (ValidCall /\ Cardinality(D) <= d)
    => (pc # "raised" /\ (pc = "returned" => ExactlyD))

C1_Witness ==
  /\ pc = "returned" /\ Len(items) = 4 /\ d = 2 /\ Cardinality(D) = 2
  /\ BlockCalls(TRUE) # {}
  /\ ExactlyD

\* ------------------------------------------------------------------ C2
\* C2: with more defectives in the pool than the bound d >= 1, the run still
\* returns exactly the defective items: d caps nothing.
C2_BeyondBound ==
  (ValidCall /\ Cardinality(D) > d)
    => (pc # "raised" /\ (pc = "returned" => ExactlyD))

C2_Witness ==
  /\ pc = "returned" /\ Len(items) = 4 /\ d = 2 /\ Cardinality(D) = 4
  /\ BlockCalls(TRUE) # {}
  /\ ExactlyD

\* ------------------------------------------------------------------ C3
\* C3: called on a block that tests positive, _binary_search returns a
\* defective item of the block and a list of non-defective items of the block;
\* with exactly one defective in the block, it returns that one.
C3_LocatorSound ==
  (pc = "bs_returned" /\ pred(candidates))
    => /\ single_defect \in D \cap Range(candidates)
       /\ Range(confirmed_okay) \subseteq Range(candidates) \ D
       /\ Cardinality(D \cap Range(candidates)) = 1
            => D \cap Range(candidates) = {single_defect}

C3_Witness ==
  /\ pc = "bs_returned" /\ Len(candidates) = 5
  /\ Cardinality(D) >= 2 /\ single_defect \in D
  /\ Len(confirmed_okay) >= 3

\* ------------------------------------------------------------------ C4
\* C4 as stated: on a positive block of m items _binary_search makes exactly
\* ceil(log2(m)) oracle calls.
C4_ExactlyCeil ==
  (pc = "bs_returned" /\ pred(candidates))
    => Len(log) = CeilLog2(Len(candidates))

\* C4 amended: the number of oracle calls lies between floor(log2(m)) and
\* ceil(log2(m)), hence is exactly log2(m) when m is a power of two.
C4_BetweenFloorAndCeil ==
  (pc = "bs_returned" /\ pred(candidates))
    => /\ FloorLog2(Len(candidates)) <= Len(log)
       /\ Len(log) <= CeilLog2(Len(candidates))

C4_Witness ==
  /\ pc = "bs_returned" /\ pred(candidates)
  /\ Len(candidates) = 5 /\ Len(log) = 2

\* ------------------------------------------------------------------ C5
\* C5: a repetition of a call ends as the first run did, with the same set of
\* defects and the same number of oracle calls, whatever order the pool is
\* rebuilt in.
C5_Deterministic ==
  (ValidCall /\ run = 2 /\ Ended)
    => /\ first.pc = pc
       /\ first.defects = Range(defects)
       /\ first.calls = Len(log)

\* ------------------------------------------------------------------ C6
\* C6: a run on a non-empty pool with d >= 1 returns, and every adaptive round,
\* on the negative and on the positive branch, leaves unsure strictly smaller
\* than it found it and passes the check of line 72.
C6_TerminatesAndShrinks ==
  /\ ValidCall => <>(pc = "returned")
  /\ [][(ValidCall /\ ((pc = "loop" /\ pc' \notin {"individual", "bsearch"})
                        \/ pc = "resolve"))
          => (Len(unsure') < Len(unsure) /\ pc' = "loop")]_vars

C6_Witness ==
  /\ pc = "returned" /\ ValidCall
  /\ BlockCalls(TRUE) # {} /\ BlockCalls(FALSE) # {}

\* ------------------------------------------------------------------ C7
\* C7: on a pool of one item with d >= 1 the run makes one oracle call, on
\* [item], and returns [item] if it is true and [] otherwise.
C7_SingleItem ==
  (Len(items) = 1 /\ d >= 1)
    => /\ pc # "raised"
       /\ \A k \in 1 .. Len(log) :
            k = 1 /\ log[k].q = items /\ log[k].at = 55
       /\ pc = "returned"
            => /\ Len(log) = 1
               /\ defects = IF log[1].r THEN items ELSE <<>>
               /\ log[1].r = (items[1] \in D)

C7_Witness ==
  /\ Len(items) = 1 /\ d >= 1 /\ pc = "returned"
  /\ defects = items

\* ------------------------------------------------------------------ C8
\* C8: called with an empty pool, the run makes no oracle call and does not end
\* in the RuntimeError that signals an internal invariant violation.
C8_EmptyPoolNotFatal ==
  Len(items) = 0 => (log = <<>> /\ pc # "raised")

\* ------------------------------------------------------------------ C9
\* C9: called with d < 1 on a non-empty pool, the run ends with an empty result
\* and no oracle call made, never with the RuntimeError and never after a
\* splitting run.
C9_BadBoundRejected ==
  (d < 1 /\ Len(items) >= 1 /\ Ended)
    => (pc = "returned" /\ defects = <<>> /\ log = <<>>)

\* ------------------------------------------------------------------ C11
\* C11: the round that confirms a defect through _binary_search leaves the
\* bound d one less than it found it.
C11_BoundDecremented ==
  [][(pc = "resolve" /\ pc' = "loop") => d' = d - 1]_vars

\* ------------------------------------------------------------------ C12
\* C12: the round whose block tests positive appends the item _binary_search
\* returned, and nothing else, to defects; the new unsure is, as a set, the old
\* one less that item and less confirmed_okay, so the items of the block after
\* the located one and all items behind the block stay in unsure.
C12_PositiveRound ==
  [][pc = "resolve"
       => LET block == Len(candidates)
              after == {candidates[k] : k \in (start + 2) .. block}
              behind == {unsure[k] : k \in (block + 1) .. Len(unsure)}
          IN  /\ candidates = SubSeq(unsure, 1, block)
              /\ single_defect = candidates[start + 1]
              /\ defects' = defects \o <<single_defect>>
              /\ Range(unsure') =
                   (Range(unsure) \ {single_defect}) \ Range(confirmed_okay)
              /\ Len(unsure') = Cardinality(Range(unsure'))
              /\ (after \cup behind) \subseteq Range(unsure')]_vars

C12_Witness ==
  /\ pc = "loop" /\ Len(defects) = 1
  /\ Len(candidates) = 2 /\ single_defect = candidates[1]
  /\ candidates[2] \in Range(unsure)
  /\ Len(unsure) = 3

\* ------------------------------------------------------------------ C13
\* C13: the round whose block tests negative makes that one oracle call, leaves
\* defects and d as they were and ends with unsure cut to the items behind the
\* first 2^alpha, in their order.
C13_NegativeRound ==
  [][(pc = "loop" /\ Len(log') = Len(log) + 1 /\ ~log'[Len(log')].r)
       => LET len == Len(unsure)
              size == Len(log'[Len(log')].q)
          IN  /\ defects' = defects /\ d' = d
              /\ log'[Len(log')].at = 64
              /\ \E a \in 0 .. len - d + 1 :
                   IsAlpha(a, len - d + 1) /\ size = Clamped(2 ^ a, len)
              /\ log'[Len(log')].q = SubSeq(unsure, 1, size)
              /\ unsure' = SubSeq(unsure, size + 1, len)
              /\ pc' \in {"loop", "raised"}]_vars

C13_Witness ==
  /\ pc = "loop" /\ Len(log) = 1 /\ ~log[1].r /\ log[1].at = 64
  /\ Len(log[1].q) = 2 /\ unsure = SubSeq(items, 3, Len(items))
  /\ Len(unsure) = 2

\* ------------------------------------------------------------------ C14
\* C14: the run starts at the adaptive loop and leaves it for individual
\* testing exactly when n == 1 or n <= 2d - 2; individual testing is never left
\* but by the return, no other oracle call follows an individual test, and at
\* the return every item of unsure has been tested once, alone and in order,
\* with exactly those that tested true appended to defects.
C14_Modes ==
  /\ pc = "loop"
  /\ [][(pc = "loop" /\ Len(unsure) > 0)
          => ((pc' = "individual")
                <=> (Len(unsure) = 1 \/ Len(unsure) <= 2 * d - 2))]_vars
  /\ [][pc = "individual" => pc' \in {"individual", "returned"}]_vars
  /\ [](\A j, k \in 1 .. Len(log) :
          (j < k /\ log[j].at = 55) => log[k].at = 55)
  /\ [](pc = "returned"
          => LET base == Len(log) - Len(unsure)
                 found == SelectSeq(unsure, LAMBDA x : x \in D)
                 before == Len(defects) - Len(found)
             IN  /\ base >= 0 /\ before = Cardinality(BlockCalls(TRUE))
                 /\ \A j \in 1 .. base : log[j].at # 55
                 /\ \A k \in 1 .. Len(unsure) :
                      log[base + k] =
                        [q |-> <<unsure[k]>>, r |-> unsure[k] \in D, at |-> 55]
                 /\ SubSeq(defects, before + 1, Len(defects)) = found)

C14_Witness ==
  /\ pc = "returned" /\ BlockCalls(TRUE) # {} /\ BlockCalls(FALSE) # {}
  /\ Len(unsure) = 2 /\ unsure[1] \notin D /\ unsure[2] \in D

C16_WindowInvariant ==
  (pc = "bsearch" /\ pred(candidates))
    => /\ 0 <= start /\ start < end /\ end <= Len(candidates)
       /\ \E k \in (start + 1) .. end : candidates[k] \in D
       /\ \A k \in 1 .. start : candidates[k] \notin D
       /\ nondefective = SubSeq(candidates, 1, start)

C16_Witness ==
  /\ pc = "bsearch" /\ pred(candidates)
  /\ start = 2 /\ end = 5 /\ Len(candidates) = 5
  /\ Len(nondefective) = 2

\* ------------------------------------------------------------------ C17
\* C17: the block tested at line 64 is the first 2^alpha items of unsure, in
\* order, with alpha = floor(log2((n - d + 1) / 2)): a power of two, at least
\* one item, and for d >= 1 at most half of the pool.
C17_BlockIsFirstPowerOfTwo ==
  [][(pc = "loop" /\ Len(log') = Len(log) + 1 /\ log'[Len(log')].at = 64)
       => LET q == log'[Len(log')].q
              len == Len(unsure)
          IN  \E a \in 0 .. len - d + 1 :
                /\ IsAlpha(a, len - d + 1)
                /\ Len(q) = 2 ^ a /\ 1 <= Len(q)
                /\ q = SubSeq(unsure, 1, 2 ^ a)
                /\ (d >= 1 => 2 * Len(q) <= len /\ Len(q) < len)]_vars

\* ------------------------------------------------------------------ C18
\* C18: on a block that tests positive, _binary_search returns the defective
\* item of lowest index, and its clean list is the prefix of candidates before
\* that item, in order.
C18_LowestIndex ==
  (pc = "bs_returned" /\ pred(candidates))
    => \E k \in 1 .. Len(candidates) :
         /\ candidates[k] \in D
         /\ \A j \in 1 .. (k - 1) : candidates[j] \notin D
         /\ single_defect = candidates[k]
         /\ confirmed_okay = SubSeq(candidates, 1, k - 1)

C18_Witness ==
  /\ pc = "bs_returned" /\ Len(candidates) = 5
  /\ single_defect = candidates[3] /\ candidates[5] \in D
  /\ Len(confirmed_okay) = 2

\* ------------------------------------------------------------------ C19
\* C19: a call with a non-empty pool and d >= 1 never raises RuntimeError,
\* never finds unsure empty in the adaptive loop, and ends at the return of
\* the individual-testing branch, whose last oracle call is an individual
\* test.
C19_NoRuntimeError ==
  /\ [](ValidCall
          => /\ pc # "raised"
             /\ pc \in {"loop", "bsearch", "resolve"} => Len(unsure) > 0
             /\ pc = "returned"
                  => Len(log) > 0 /\ log[Len(log)].at = 55)
  /\ (ValidCall => <>(pc = "returned"))

C19_Witness ==
  /\ ValidCall /\ pc = "returned"
  /\ BlockCalls(TRUE) # {} /\ BlockCalls(FALSE) # {}
  /\ Len(unsure) = 1 /\ log[Len(log)].at = 55

\* ------------------------------------------------------------------ C20
\* C20: in the adaptive loop every item of the pool is in exactly one of
\* unsure, defects, or neither (removed as clean), once each; every item
\* removed as clean lies in a query the oracle answered false; and an item
\* leaves unsure only as the item _binary_search returned or covered by a
\* negative test.
Clean == Range(items) \ (Range(unsure) \cup Range(defects))

CoveredBy(calls, x) ==
  \E k \in 1 .. Len(calls) : ~calls[k].r /\ x \in Range(calls[k].q)

====
